---- MODULE Spec2Model ----
(***************************************************************************)
(* Model of descriptions_to_graph_generic.py: free-text descriptions are   *)
(* turned into field groups by ordered regex patterns, and the fields are  *)
(* written to a Neo4j graph by one MERGE statement per write() call.       *)
(*                                                                         *)
(* Text is a sequence of tokens: a token is one whitespace character, one  *)
(* punctuation character, or an opaque run of other characters.  Python's  *)
(* None and the empty string are both falsy and the source only ever tests *)
(* truthiness (`if not name`, `s if s else None`, `if val`), so both are   *)
(* the empty sequence here; a property set to null is stored as NULL.      *)
(*                                                                         *)
(* The graph store is db = [nodes, rels, constraints, now].  A node's id   *)
(* is its index in db.nodes, so two nodes with equal properties stay two   *)
(* nodes.  datetime() is the statement's time db.now; every write() runs   *)
(* at a later instant than the one before it.                              *)
(*                                                                         *)
(* Specifications:                                                         *)
(*   Spec         main, run after run, the file edited between runs;       *)
(*   SpecFail     main where any write() may raise, and the runs after;    *)
(*   SpecPar      the loop body of main run by one worker per record;      *)
(*   SpecExtract  the field loop of extract_fields on any text;            *)
(*   SpecSearch   BertDescriptionElser.semantic_search                     *)
(*                (bert_elser_pipeline.py);                                *)
(*   SpecIndex    ensure_indexed (run_bert_elser_test.py) with the index   *)
(*                and bulk methods of BertDescriptionElser it calls.       *)
(***************************************************************************)
EXTENDS Integers, Sequences, FiniteSets, TLC

VARIABLES df, db, pc, run, row, fields, person_name, org_name, loc_i,
          snapshot, edited, failed_run, workers, extract, search, index

vars ==
  <<df, db, pc, run, row, fields, person_name, org_name, loc_i, snapshot, edited,
    failed_run, workers, extract, search, index>>

(* ------------------------------ bounds -------------------------------- *)
MaxRows == 2
MaxRuns == 2

(* ------------------------- module-level config ------------------------ *)
NULL == <<>>

SOURCE_NAME == "descriptions_only.xlsx"
RECORD_LABEL == "Record"
RECORD_ID_PREFIX == "DESC_"

Pattern(label) == [label |-> label, until |-> {";"}]

\* relation_rules.yml, field_patterns: every pattern is the regex
\* LABEL:(?P<value>[^;]*) for its label.
FIELD_PATTERNS ==
  [person |->
     [name               |-> <<Pattern("name")>>,
      dob                |-> <<Pattern("dob")>>,
      citizenship        |-> <<Pattern("citizenship")>>,
      departure_location |-> <<Pattern("departure")>>,
      arrival_location   |-> <<Pattern("arrival")>>],
   organization |->
     [name               |-> <<Pattern("org")>>,
      address            |-> <<Pattern("office")>>]]

\* relation_rules.yml, location_relationships, in document order.
LOCATION_REL_MAP ==
  << <<"place_of_birth", "BORN_IN">>,
     <<"departure_location", "DEPARTED_FROM">>,
     <<"arrival_location", "ARRIVED_AT">>,
     <<"arrest_location", "ARRESTED_AT">> >>

(* ------------------------------ helpers ------------------------------- *)
Whitespace == {" ", "\t", "\n"}

RECURSIVE lstrip(_, _)
lstrip(s, chars) ==
  IF s # <<>> /\ Head(s) \in chars THEN lstrip(Tail(s), chars) ELSE s

RECURSIVE rstrip(_, _)
rstrip(s, chars) ==
  IF s # <<>> /\ s[Len(s)] \in chars
    THEN rstrip(SubSeq(s, 1, Len(s) - 1), chars)
    ELSE s

\* str.strip(): with no argument it strips whitespace.
strip(s, chars) == rstrip(lstrip(s, chars), chars)

clean_str(v) ==
  IF v = NULL
    THEN NULL
    ELSE LET s == strip(v, Whitespace) IN IF s # <<>> THEN s ELSE NULL

\* dict.get(k): None when the key is absent.
Get(d, k) == IF k \in DOMAIN d THEN d[k] ELSE NULL

(* -------------------------- field extraction -------------------------- *)
\* re.IGNORECASE on the label tokens the inputs use.
Lower(t) ==
  CASE t \in {"NAME", "Name"} -> "name"
    [] t = "DOB" -> "dob"
    [] t = "Citizenship" -> "citizenship"
    [] t = "Departure" -> "departure"
    [] t = "Arrival" -> "arrival"
    [] t = "Org" -> "org"
    [] t = "Office" -> "office"
    [] OTHER -> t

\* The capture of [^;]*: the tokens from position i up to the next stop token.
RECURSIVE capture(_, _, _)
capture(text, i, until) ==
  IF i > Len(text) \/ text[i] \in until
    THEN <<>>
    ELSE <<text[i]>> \o capture(text, i + 1, until)

\* re.search(pat, text, flags=re.IGNORECASE): the leftmost match, as
\* [matched, value]; value is m.group("value").
re_search(pat, text) ==
  LET starts == {i \in 1..(Len(text) - 1) :
                   Lower(text[i]) = Lower(pat.label) /\ text[i + 1] = ":"}
  IN IF starts = {}
       THEN [matched |-> FALSE, value |-> NULL]
       ELSE LET i == CHOOSE j \in starts : \A l \in starts : j <= l
            IN [matched |-> TRUE, value |-> capture(text, i + 2, pat.until)]

\* Mutant: the loop does not stop at the first value, the last one wins.
RECURSIVE value_found_last(_, _, _)
value_found_last(patterns, n, text) ==
  IF n > Len(patterns)
    THEN NULL
    ELSE LET later == value_found_last(patterns, n + 1, text)
             m     == re_search(patterns[n], text)
             val   == strip(strip(m.value, Whitespace), {"\"", ",", ";", " "})
         IN IF later # NULL
              THEN later
              ELSE IF m.matched /\ val # <<>> THEN val ELSE NULL

\* The inner loop of extract_fields over one field's patterns, from the
\* n-th on: the first pattern whose stripped capture is non-empty.
RECURSIVE value_found(_, _, _)
value_found(patterns, n, text) ==
  IF n > Len(patterns)
    THEN NULL
    ELSE LET m   == re_search(patterns[n], text)
             val == strip(strip(m.value, Whitespace), {"\"", ",", ";", " "})
         IN IF m.matched /\ val # <<>>
              THEN val
              ELSE value_found(patterns, n + 1, text)

group_out(group_cfg, text) ==
  LET found == {f \in DOMAIN group_cfg : value_found(group_cfg[f], 1, text) # NULL}
  IN [f \in found |-> value_found(group_cfg[f], 1, text)]

extract_fields(text) ==
  [g \in DOMAIN FIELD_PATTERNS |-> group_out(FIELD_PATTERNS[g], text)]

(* ----------------------------- graph store ---------------------------- *)
EmptyDb == [nodes |-> <<>>, rels |-> <<>>, constraints |-> {}, now |-> 0]

\* write(cypher, params): one statement in its own session; the store's clock
\* has moved on when the next statement runs.
write(S, nodes, rels) == [S EXCEPT !.nodes = nodes, !.rels = rels, !.now = S.now + 1]

\* Mutant: MERGE never finds the node it should match.
MatchNodesNever(nodes, labels, key) == {}

\* A Cypher node pattern (:labels {key}): the ids of the nodes carrying all
\* the labels and every key property.  No node stores a null key property,
\* so a null parameter matches nothing.
MatchNodes(nodes, labels, key) ==
  {i \in DOMAIN nodes :
     /\ labels \subseteq nodes[i].labels
     /\ \A k \in DOMAIN key : k \in DOMAIN nodes[i] /\ nodes[i][k] = key[k]}

\* Mutant: CREATE instead of MERGE.
MergeNodeCreate(nodes, hit, created, matched) == Append(nodes, created)

\* MERGE of a node pattern: ON CREATE adds one node when nothing matches,
\* ON MATCH updates every node that matches.
MergeNode(nodes, hit, created, matched) ==
  IF hit = {}
    THEN Append(nodes, created)
    ELSE [i \in DOMAIN nodes |-> IF i \in hit THEN matched[i] ELSE nodes[i]]

\* Mutant: MERGE never finds the relationship it should match.
MatchRelsNever(rels, type, from, to) == {}

\* A Cypher relationship pattern (a)-[:type]->(b): the positions of the
\* relationships of that type between that ordered pair.
MatchRels(rels, type, from, to) ==
  {j \in DOMAIN rels :
     rels[j].type = type /\ rels[j].from = from /\ rels[j].to = to}

\* Mutant: the new value wins over the stored one.
coalesce_overwrite(a, b) == IF b # NULL THEN b ELSE a

coalesce(a, b) == IF a # NULL THEN a ELSE b

(* ------------------------------- schema ------------------------------- *)
\* Mutant: the Entity constraint is never declared.
ensure_schema_entity_skip(S) == write(S, S.nodes, S.rels)

ensure_schema_record(S) ==
  write([S EXCEPT !.constraints = @ \cup {<<RECORD_LABEL, <<"record_id">> >>}],
        S.nodes, S.rels)

ensure_schema_entity(S) ==
  write([S EXCEPT !.constraints =
           @ \cup {<<"Entity", <<"entity_type", "canonical_text">> >>}],
        S.nodes, S.rels)

(* ---------------------------- upsert_record --------------------------- *)
record_on_create(params, now) ==
  [labels      |-> {RECORD_LABEL},
   record_id   |-> params.record_id,
   description |-> params.description,
   row_index   |-> params.row_index,
   source_file |-> params.source_file,
   created_at  |-> now,
   updated_at  |-> now]

\* Mutant: ON MATCH refreshes updated_at only.
record_on_match_keep(r, params, now) == [r EXCEPT !.updated_at = now]

record_on_match(r, params, now) ==
  [r EXCEPT !.description = params.description, !.updated_at = now]

upsert_record(S, record_id, row_index, description) ==
  LET params == [record_id   |-> record_id,
                 row_index   |-> row_index,
                 description |-> description,
                 source_file |-> SOURCE_NAME]
      hit == MatchNodes(S.nodes, {RECORD_LABEL}, [record_id |-> params.record_id])
  IN write(S,
           MergeNode(S.nodes, hit, record_on_create(params, S.now),
                     [i \in hit |-> record_on_match(S.nodes[i], params, S.now)]),
           S.rels)

(* ---------------------------- upsert_person --------------------------- *)
PersonAttrs ==
  {"dob", "citizenship", "place_of_birth", "phone_number", "address",
   "passport_number", "flight_number", "departure_location",
   "arrival_location", "arrest_location", "arrival_date", "departure_date",
   "date_generic", "money", "license_plate", "drivers_license"}

person_params(name, person_fields) ==
  [k \in {"name"} \cup PersonAttrs |->
     IF k = "name" THEN name ELSE clean_str(Get(person_fields, k))]

person_on_create(params, now) ==
  [k \in {"labels", "entity_type", "canonical_text", "name", "source",
          "created_at", "updated_at"} \cup PersonAttrs |->
     CASE k = "labels"         -> {"Entity", "Person"}
       [] k = "entity_type"    -> "PERSON"
       [] k = "canonical_text" -> params.name
       [] k = "name"           -> params.name
       [] k = "source"         -> "structured_text"
       [] k = "created_at"     -> now
       [] k = "updated_at"     -> now
       [] OTHER                -> params[k]]

person_on_match(p, params, now) ==
  [k \in DOMAIN p |->
     CASE k \in PersonAttrs -> coalesce(p[k], params[k])
       [] k = "updated_at"  -> now
       [] OTHER             -> p[k]]

\* Mutant: CREATE instead of MERGE.
upsert_person_create(S, person_fields) ==
  LET name == clean_str(Get(person_fields, "name"))
  IN IF name = NULL
       THEN [ret |-> NULL, db |-> S]
       ELSE [ret |-> name,
             db  |-> write(S,
                       Append(S.nodes,
                              person_on_create(person_params(name, person_fields),
                                               S.now)),
                       S.rels)]

\* Returns [ret, db]: the function's return value and the store it leaves.
upsert_person(S, person_fields) ==
  LET name == clean_str(Get(person_fields, "name"))
  IN IF name = NULL
       THEN [ret |-> NULL, db |-> S]
       ELSE LET params == person_params(name, person_fields)
                hit == MatchNodes(S.nodes, {"Entity", "Person"},
                         [entity_type |-> "PERSON", canonical_text |-> params.name])
            IN [ret |-> name,
                db  |-> write(S,
                          MergeNode(S.nodes, hit, person_on_create(params, S.now),
                            [i \in hit |-> person_on_match(S.nodes[i], params, S.now)]),
                          S.rels)]

(* ------------------------- upsert_organization ------------------------ *)
org_on_create(params, now) ==
  [labels         |-> {"Entity", "Organization"},
   entity_type    |-> "ORG",
   canonical_text |-> params.name,
   name           |-> params.name,
   address        |-> params.address,
   source         |-> "structured_text",
   created_at     |-> now,
   updated_at     |-> now]

org_on_match(o, params, now) ==
  [o EXCEPT !.address = coalesce(o.address, params.address), !.updated_at = now]

\* Mutant: an organization is upserted only along with a person, so a
\* call made for a record without one returns None.
upsert_organization_none(S, org_fields) == [ret |-> NULL, db |-> S]

upsert_organization(S, org_fields) ==
  LET name == clean_str(Get(org_fields, "name"))
  IN IF name = NULL
       THEN [ret |-> NULL, db |-> S]
       ELSE LET params == [name |-> name,
                           address |-> clean_str(Get(org_fields, "address"))]
                hit == MatchNodes(S.nodes, {"Entity", "Organization"},
                         [entity_type |-> "ORG", canonical_text |-> params.name])
            IN [ret |-> name,
                db  |-> write(S,
                          MergeNode(S.nodes, hit, org_on_create(params, S.now),
                            [i \in hit |-> org_on_match(S.nodes[i], params, S.now)]),
                          S.rels)]

(* --------------------------- upsert_location -------------------------- *)
location_on_create(params, now) ==
  [labels         |-> {"Entity", "Location"},
   entity_type    |-> "GPE",
   canonical_text |-> params.name,
   name           |-> params.name,
   source         |-> "structured_text",
   created_at     |-> now,
   updated_at     |-> now]

\* Mutant: no ON MATCH clause.
location_on_match_none(l, now) == l

location_on_match(l, now) == [l EXCEPT !.updated_at = now]

\* Mutant: CREATE instead of MERGE.
upsert_location_create(S, name) ==
  IF name = NULL
    THEN S
    ELSE write(S, Append(S.nodes, location_on_create([name |-> name], S.now)),
               S.rels)

upsert_location(S, name) ==
  IF name = NULL
    THEN S
    ELSE LET params == [name |-> name]
             hit == MatchNodes(S.nodes, {"Entity", "Location"},
                      [entity_type |-> "GPE", canonical_text |-> params.name])
         IN write(S,
                  MergeNode(S.nodes, hit, location_on_create(params, S.now),
                            [i \in hit |-> location_on_match(S.nodes[i], S.now)]),
                  S.rels)

(* ---------------------------- relationships --------------------------- *)
rel_on_create(type, from, to, now) ==
  [type       |-> type,
   from       |-> from,
   to         |-> to,
   source     |-> "structured_text",
   first_seen |-> now,
   last_seen  |-> now]

\* Mutant: ON MATCH sets first_seen as well.
rel_on_match_reset(r, now) == [r EXCEPT !.first_seen = now, !.last_seen = now]

\* Mutant: ON MATCH leaves last_seen alone.
rel_on_match_stale(r, now) == r

rel_on_match(r, now) == [r EXCEPT !.last_seen = now]

\* Mutant: the relationship is merged in the opposite direction.
MergeRelReversed(rels, type, from, to, now) ==
  LET hit == MatchRels(rels, type, to, from)
  IN IF hit = {}
       THEN Append(rels, rel_on_create(type, to, from, now))
       ELSE [j \in DOMAIN rels |-> IF j \in hit THEN rel_on_match(rels[j], now) ELSE rels[j]]

\* MERGE (a)-[r:type]->(b) with ON CREATE SET / ON MATCH SET, for one row
\* (a, b) of the preceding MATCH clauses.
MergeRel(rels, type, from, to, now) ==
  LET hit == MatchRels(rels, type, from, to)
  IN IF hit = {}
       THEN Append(rels, rel_on_create(type, from, to, now))
       ELSE [j \in DOMAIN rels |-> IF j \in hit THEN rel_on_match(rels[j], now) ELSE rels[j]]

\* Mutant: CREATE instead of MERGE.
MergeBareRelCreate(rels, type, from, to) ==
  Append(rels, [type |-> type, from |-> from, to |-> to])

\* MERGE (r)-[:DESCRIBES]->(p): no SET clause, the relationship has no
\* properties.
MergeBareRel(rels, type, from, to) ==
  IF MatchRels(rels, type, from, to) = {}
    THEN Append(rels, [type |-> type, from |-> from, to |-> to])
    ELSE rels

\* The rows of two MATCH clauses, in a fixed order.
RECURSIVE Rows(_)
Rows(pairs) ==
  IF pairs = {}
    THEN <<>>
    ELSE LET p == CHOOSE q \in pairs :
                    \A o \in pairs : q[1] < o[1] \/ (q[1] = o[1] /\ q[2] <= o[2])
         IN <<p>> \o Rows(pairs \ {p})

RECURSIVE MergeRelRows(_, _, _, _)
MergeRelRows(rels, rows, type, now) ==
  IF rows = <<>>
    THEN rels
    ELSE MergeRelRows(MergeRel(rels, type, rows[1][1], rows[1][2], now),
                      Tail(rows), type, now)

RECURSIVE MergeBareRelRows(_, _, _)
MergeBareRelRows(rels, rows, type) ==
  IF rows = <<>>
    THEN rels
    ELSE MergeBareRelRows(MergeBareRel(rels, type, rows[1][1], rows[1][2]),
                          Tail(rows), type)

MatchPerson(nodes, name) ==
  MatchNodes(nodes, {"Entity", "Person"},
             [entity_type |-> "PERSON", canonical_text |-> name])

MatchOrganization(nodes, name) ==
  MatchNodes(nodes, {"Entity", "Organization"},
             [entity_type |-> "ORG", canonical_text |-> name])

\* Mutant: the location is matched as (l:Entity {canonical_text: $loc_name}),
\* without its label and entity_type.
MatchLocationAnyEntity(nodes, name) ==
  MatchNodes(nodes, {"Entity"}, [canonical_text |-> name])

MatchLocation(nodes, name) ==
  MatchNodes(nodes, {"Entity", "Location"},
             [entity_type |-> "GPE", canonical_text |-> name])

MatchRecord(nodes, id) == MatchNodes(nodes, {RECORD_LABEL}, [record_id |-> id])

connect_record_to_person(S, id, name) ==
  LET r == MatchRecord(S.nodes, id)
      p == MatchPerson(S.nodes, name)
  IN write(S, S.nodes, MergeBareRelRows(S.rels, Rows(r \X p), "DESCRIBES"))

connect_person_to_org(S, pname, oname) ==
  LET p == MatchPerson(S.nodes, pname)
      o == MatchOrganization(S.nodes, oname)
  IN write(S, S.nodes,
           MergeRelRows(S.rels, Rows(p \X o), "ASSOCIATED_WITH_ORG", S.now))

\* connect_person_to_locations, one iteration of its loop: the location
\* name of the n-th (field_key, rel_type) pair, and the statement that
\* follows upsert_location(loc_name).
field_key(n) == LOCATION_REL_MAP[n][1]

\* Mutant: the relationship type is the field name, not the mapped type.
rel_type_field(n) == LOCATION_REL_MAP[n][1]

rel_type(n) == LOCATION_REL_MAP[n][2]

\* Mutant: the loop ends (`break`) at the first pair without a value.
loc_name_break(person_fields, n) ==
  IF \E m \in 1..n : clean_str(Get(person_fields, field_key(m))) = NULL
    THEN NULL
    ELSE clean_str(Get(person_fields, field_key(n)))

loc_name(person_fields, n) == clean_str(Get(person_fields, field_key(n)))

connect_person_to_location(S, pname, lname, type) ==
  LET p == MatchPerson(S.nodes, pname)
      l == MatchLocation(S.nodes, lname)
  IN write(S, S.nodes, MergeRelRows(S.rels, Rows(p \X l), type, S.now))

(* ------------------------------- inputs ------------------------------- *)
D_Jane ==
  <<"NAME", ":", " ", "Jane Roe", ";", " ", "Citizenship", ":", " ", "USA",
    ";", " ", "Departure", ":", " ", "JFK">>

D_JaneOrg ==
  <<"name", ":", " ", "Jane Roe", " ", ";", " ", "DOB", ":", " ", "1980-01-01",
    ";", " ", "Citizenship", ":", " ", "UK", ";", " ", "Arrival", ":", " ",
    "JFK", ";", " ", "Org", ":", " ", "\"", "Acme", "\"">>

D_John ==
  <<" ", "NAME", ":", "John Doe", ";", " ", "Departure", ":", " ", "JFK", ";",
    " ", "Arrival", ":", " ", "LAX", ",", ";", " ", "Org", ":", "Acme", ";",
    " ", "Office", ":", " ", "1 Main St", " ">>

D_NoName ==
  <<"Departure", ":", " ", "LAX", ";", " ", "Org", ":", " ", "Acme", ";", " ",
    "Office", ":", " ", "2 Side St">>

\* D_Jane leaving from a place with the name an organization has elsewhere.
D_JaneFromAcme ==
  <<"NAME", ":", " ", "Jane Roe", ";", " ", "Citizenship", ":", " ", "USA",
    ";", " ", "Departure", ":", " ", "Acme">>

D_Blank == <<" ", "\t">>

Descriptions == {D_Jane, D_JaneOrg, D_John, D_NoName, D_Blank}

\* The 'description' column load_descriptions returns, rows in file order.
Files == UNION {[1..n -> Descriptions] : n \in 1..MaxRows}

\* The file after someone changed one row or added one.
Edits(f) ==
  ({[f EXCEPT ![i] = d] : i \in DOMAIN f, d \in Descriptions} \ {f})
    \cup (IF Len(f) < MaxRows THEN {Append(f, d) : d \in Descriptions} ELSE {})

(* -------------------------------- main -------------------------------- *)
\* The loop variables of main for the row at position `row` (idx = row - 1).
description == clean_str(df[row])

record_id == <<RECORD_ID_PREFIX, row>>

NoFields == [person |-> <<>>, organization |-> <<>>]

\* failed_run is the run in which a write() raised (0: none has); workers
\* holds the locals of the workers of a parallel run; extract and search
\* hold one call of extract_fields' field loop and of semantic_search,
\* index one call of ensure_indexed with the cluster it talks to.
\* main itself uses none of the last four.
NoExtract == [pc |-> "none"]

NoSearch == [pc |-> "none"]

NoIndex == [pc |-> "none"]

person_fields == Get(fields, "person")

org_fields == Get(fields, "organization")

NextRow ==
  /\ pc' = "rows"
  /\ row' = row + 1
  /\ fields' = NoFields
  /\ person_name' = NULL
  /\ org_name' = NULL
  /\ loc_i' = 0

Init ==
  /\ df \in Files
  /\ db = EmptyDb
  /\ pc = "main"
  /\ run = 0
  /\ row = 0
  /\ fields = NoFields
  /\ person_name = NULL
  /\ org_name = NULL
  /\ loc_i = 0
  /\ snapshot = EmptyDb
  /\ edited = FALSE
  /\ failed_run = 0
  /\ workers = <<>>
  /\ extract = NoExtract
  /\ search = NoSearch
  /\ index = NoIndex

\* Between two runs the input file is edited.
EditFile ==
  /\ pc = "main"
  /\ run >= 1
  /\ run < MaxRuns
  /\ ~edited
  /\ df' \in Edits(df)
  /\ edited' = TRUE
  /\ UNCHANGED <<db, pc, run, row,
                 fields, person_name, org_name, loc_i, snapshot>>
  /\ UNCHANGED <<failed_run, workers, extract, search, index>>

EnsureSchemaRecord ==
  /\ pc = "main"
  /\ run < MaxRuns
  /\ db' = ensure_schema_record(db)
  /\ run' = run + 1
  /\ pc' = "ensure_schema"
  /\ UNCHANGED <<df, row, fields, person_name,
                 org_name, loc_i, snapshot, edited>>
  /\ UNCHANGED <<failed_run, workers, extract, search, index>>

EnsureSchemaEntity ==
  /\ pc = "ensure_schema"
  /\ db' = ensure_schema_entity(db)
  /\ pc' = "rows"
  /\ row' = 1
  /\ UNCHANGED <<df, run, fields, person_name,
                 org_name, loc_i, snapshot, edited>>
  /\ UNCHANGED <<failed_run, workers, extract, search, index>>

SkipRow ==
  /\ pc = "rows"
  /\ row <= Len(df)
  /\ description = NULL
  /\ NextRow
  /\ UNCHANGED <<df, db, run, snapshot, edited>>
  /\ UNCHANGED <<failed_run, workers, extract, search, index>>

UpsertRecord ==
  /\ pc = "rows"
  /\ row <= Len(df)
  /\ description # NULL
  /\ db' = upsert_record(db, record_id, row, description)
  /\ fields' = extract_fields(description)
  /\ pc' = "upsert_person"
  /\ UNCHANGED <<df, run, row, person_name,
                 org_name, loc_i, snapshot, edited>>
  /\ UNCHANGED <<failed_run, workers, extract, search, index>>

UpsertPerson ==
  /\ pc = "upsert_person"
  /\ LET r == IF DOMAIN person_fields # {}
                THEN upsert_person(db, person_fields)
                ELSE [ret |-> NULL, db |-> db]
     IN /\ person_name' = r.ret
        /\ db' = r.db
  /\ pc' = "upsert_organization"
  /\ UNCHANGED <<df, run, row, fields, org_name, loc_i, snapshot, edited>>
  /\ UNCHANGED <<failed_run, workers, extract, search, index>>

UpsertOrganization ==
  /\ pc = "upsert_organization"
  /\ LET r == IF DOMAIN org_fields # {}
                THEN upsert_organization(db, org_fields)
                ELSE [ret |-> NULL, db |-> db]
     IN /\ org_name' = r.ret
        /\ db' = r.db
  /\ pc' = "connect"
  /\ UNCHANGED <<df, run, row, fields, person_name, loc_i, snapshot, edited>>
  /\ UNCHANGED <<failed_run, workers, extract, search, index>>

\* Mutant: the relationship work is done whether or not a person resolved.
HasPersonAlways == TRUE

\* Mutant: the relationship work is nested under `if org_name:`.
HasPersonAndOrg == person_name # NULL /\ org_name # NULL

\* `if person_name:` in main.
HasPerson == person_name # NULL

NoPerson ==
  /\ pc = "connect"
  /\ ~HasPerson
  /\ NextRow
  /\ UNCHANGED <<df, db, run, snapshot, edited>>
  /\ UNCHANGED <<failed_run, workers, extract, search, index>>

ConnectRecordToPerson ==
  /\ pc = "connect"
  /\ HasPerson
  /\ db' = connect_record_to_person(db, record_id, person_name)
  /\ pc' = "locations"
  /\ loc_i' = 1
  /\ UNCHANGED <<df, run, row, fields,
                 person_name, org_name, snapshot, edited>>
  /\ UNCHANGED <<failed_run, workers, extract, search, index>>

LocationSkip ==
  /\ pc = "locations"
  /\ loc_i <= Len(LOCATION_REL_MAP)
  /\ loc_name(person_fields, loc_i) = NULL
  /\ loc_i' = loc_i + 1
  /\ UNCHANGED <<df, db, pc, run, row,
                 fields, person_name, org_name, snapshot, edited>>
  /\ UNCHANGED <<failed_run, workers, extract, search, index>>

UpsertLocation ==
  /\ pc = "locations"
  /\ loc_i <= Len(LOCATION_REL_MAP)
  /\ loc_name(person_fields, loc_i) # NULL
  /\ db' = upsert_location(db, loc_name(person_fields, loc_i))
  /\ pc' = "location_rel"
  /\ UNCHANGED <<df, run, row, fields,
                 person_name, org_name, loc_i, snapshot, edited>>
  /\ UNCHANGED <<failed_run, workers, extract, search, index>>

ConnectPersonToLocation ==
  /\ pc = "location_rel"
  /\ db' = connect_person_to_location(db, person_name,
             loc_name(person_fields, loc_i), rel_type(loc_i))
  /\ pc' = "locations"
  /\ loc_i' = loc_i + 1
  /\ UNCHANGED <<df, run, row, fields,
                 person_name, org_name, snapshot, edited>>
  /\ UNCHANGED <<failed_run, workers, extract, search, index>>

ConnectPersonToOrg ==
  /\ pc = "locations"
  /\ loc_i > Len(LOCATION_REL_MAP)
  /\ org_name # NULL
  /\ db' = connect_person_to_org(db, person_name, org_name)
  /\ NextRow
  /\ UNCHANGED <<df, run, snapshot, edited>>
  /\ UNCHANGED <<failed_run, workers, extract, search, index>>

NoOrg ==
  /\ pc = "locations"
  /\ loc_i > Len(LOCATION_REL_MAP)
  /\ org_name = NULL
  /\ NextRow
  /\ UNCHANGED <<df, db, run, snapshot, edited>>
  /\ UNCHANGED <<failed_run, workers, extract, search, index>>

\* main returns; snapshot remembers the store this run left, for the next.
Finish ==
  /\ pc = "rows"
  /\ row > Len(df)
  /\ pc' = "main"
  /\ row' = 0
  /\ snapshot' = db
  /\ edited' = FALSE
  /\ UNCHANGED <<df, db, run, fields, person_name, org_name, loc_i>>
  /\ UNCHANGED <<failed_run, workers, extract, search, index>>

Next ==
  \/ EditFile
  \/ EnsureSchemaRecord
  \/ EnsureSchemaEntity
  \/ SkipRow
  \/ UpsertRecord
  \/ UpsertPerson
  \/ UpsertOrganization
  \/ NoPerson
  \/ ConnectRecordToPerson
  \/ LocationSkip
  \/ UpsertLocation
  \/ ConnectPersonToLocation
  \/ ConnectPersonToOrg
  \/ NoOrg
  \/ Finish

Spec == Init /\ [][Next]_vars

(* ------------------------------- claims ------------------------------- *)
IsRecord(n) == RECORD_LABEL \in n.labels

IsEntity(n) == "Entity" \in n.labels

HasLabel(n, l) == l \in n.labels

EntityIds(nodes, label, text) ==
  {i \in DOMAIN nodes :
     IsEntity(nodes[i]) /\ HasLabel(nodes[i], label) /\ nodes[i].canonical_text = text}

RecordIds(nodes, id) ==
  {i \in DOMAIN nodes : IsRecord(nodes[i]) /\ nodes[i].record_id = id}

RelsBetween(rels, type, from, to) ==
  {j \in DOMAIN rels :
     rels[j].type = type /\ rels[j].from = from /\ rels[j].to = to}

CountLabel(nodes, label) ==
  Cardinality({i \in DOMAIN nodes : HasLabel(nodes[i], label)})

Added(old, new) == DOMAIN new \ DOMAIN old

Timestamped(r) == {"source", "first_seen", "last_seen"} \subseteq DOMAIN r

LocationTypes == {LOCATION_REL_MAP[n][2] : n \in DOMAIN LOCATION_REL_MAP}

\* C1: no two Entity nodes of the store share (entity_type, canonical_text).
C1_EntityIdentityUnique ==
  \A i, j \in DOMAIN db.nodes :
    (/\ IsEntity(db.nodes[i])
     /\ IsEntity(db.nodes[j])
     /\ db.nodes[i].entity_type = db.nodes[j].entity_type
     /\ db.nodes[i].canonical_text = db.nodes[j].canonical_text) => i = j

\* A Person, an Organization and a Location have each been matched by a
\* later upsert of the same identity.
C1_Witness ==
  \A l \in {"Person", "Organization", "Location"} :
    \E i \in DOMAIN db.nodes :
      HasLabel(db.nodes[i], l) /\ db.nodes[i].updated_at > db.nodes[i].created_at

EntityAttrs(n) ==
  DOMAIN n \ {"labels", "entity_type", "canonical_text", "source",
              "created_at", "updated_at"}

\* C2: coalesce-on-match.  In every step, an attribute of an Entity node that
\* holds a non-null value keeps it; and the upsert of a matched Person or
\* Organization fills each null attribute with the value the upsert carries
\* (so a null attribute stays null only when the upsert carries null).
C2_CoalesceOnMatch ==
  [][/\ \A i \in DOMAIN db.nodes :
          IsEntity(db.nodes[i]) =>
            \A a \in EntityAttrs(db.nodes[i]) :
              db.nodes[i][a] # NULL => db'.nodes[i][a] = db.nodes[i][a]
     /\ pc = "upsert_person" =>
          \A i \in EntityIds(db.nodes, "Person", Get(fields.person, "name")) :
            \A a \in PersonAttrs :
              db.nodes[i][a] = NULL =>
                db'.nodes[i][a] = Get(fields.person, a)
     /\ pc = "upsert_organization" =>
          \A i \in EntityIds(db.nodes, "Organization",
                             Get(fields.organization, "name")) :
            db.nodes[i].address = NULL =>
              db'.nodes[i].address = Get(fields.organization, "address")
    ]_vars

\* upsert_person has just matched a Person whose citizenship it kept against
\* a different non-null value and whose null dob it filled.
C2_Witness ==
  /\ pc = "upsert_organization"
  /\ {"citizenship", "dob"} \subseteq DOMAIN fields.person
  /\ \E i \in EntityIds(db.nodes, "Person", person_name) :
       /\ db.nodes[i].created_at < db.nodes[i].updated_at
       /\ db.nodes[i].citizenship # NULL
       /\ db.nodes[i].citizenship # fields.person.citizenship
       /\ db.nodes[i].dob = fields.person.dob
       /\ i \in DOMAIN snapshot.nodes
       /\ snapshot.nodes[i].dob = NULL

NoTimestamp(x) == [k \in DOMAIN x \ {"updated_at", "last_seen"} |-> x[k]]

Content(S) ==
  [nodes |-> [i \in DOMAIN S.nodes |-> NoTimestamp(S.nodes[i])],
   rels  |-> [j \in DOMAIN S.rels |-> NoTimestamp(S.rels[j])]]

\* main is running again over the file of the run before.
ReRun == run >= 2 /\ ~edited /\ pc # "main"

RunComplete == pc = "rows" /\ row > Len(df)

\* C3: a second run of main over the same file creates no node and no edge,
\* and ends with every node, edge and attribute other than updated_at and
\* last_seen as the first run left them.
C3_RerunIdempotent ==
  ReRun =>
    /\ Len(db.nodes) = Len(snapshot.nodes)
    /\ Len(db.rels) = Len(snapshot.rels)
    /\ RunComplete => Content(db) = Content(snapshot)

\* A second run over a file with a person, an organization and a location
\* has completed, and it refreshed timestamps.
C3_Witness ==
  /\ ReRun
  /\ RunComplete
  /\ Len(db.nodes) >= 5
  /\ Len(db.rels) >= 4
  /\ \E i \in DOMAIN db.nodes : db.nodes[i].updated_at > snapshot.nodes[i].updated_at

\* C4: at most one relationship of a type between an ordered pair of nodes.
C4_OneEdgePerTypeAndPair ==
  \A j, k \in DOMAIN db.rels :
    (/\ db.rels[j].type = db.rels[k].type
     /\ db.rels[j].from = db.rels[k].from
     /\ db.rels[j].to = db.rels[k].to) => j = k

\* Relationships of all three kinds have been merged a second time.
C4_Witness ==
  /\ ReRun
  /\ RunComplete
  /\ \E j \in DOMAIN db.rels : db.rels[j].type = "DESCRIBES"
  /\ \E j \in DOMAIN db.rels :
       /\ db.rels[j].type = "ASSOCIATED_WITH_ORG"
       /\ db.rels[j].last_seen > db.rels[j].first_seen
  /\ \E j \in DOMAIN db.rels :
       /\ db.rels[j].type \in LocationTypes
       /\ db.rels[j].last_seen > db.rels[j].first_seen

\* main is processing a row whose person group has no "name" value.
NoNameRow ==
  /\ pc \in {"upsert_person", "upsert_organization", "connect", "locations",
             "location_rel"}
  /\ Get(fields.person, "name") = NULL

\* C5: while a record without a person name is processed, its Record node
\* is in the store with the record's description, and no step creates a
\* Person node, a Location node, a DESCRIBES edge from the record or a
\* Person->Location edge.
C5_NoNameNoPerson ==
  /\ [](NoNameRow =>
          \E i \in RecordIds(db.nodes, record_id) :
            db.nodes[i].description = description)
  /\ [][NoNameRow =>
          /\ CountLabel(db'.nodes, "Person") = CountLabel(db.nodes, "Person")
          /\ CountLabel(db'.nodes, "Location") = CountLabel(db.nodes, "Location")
          /\ \A j \in Added(db.rels, db'.rels) :
               /\ ~(/\ db'.rels[j].type = "DESCRIBES"
                    /\ db'.rels[j].from \in RecordIds(db'.nodes, record_id))
               /\ ~(/\ HasLabel(db'.nodes[db'.rels[j].from], "Person")
                    /\ HasLabel(db'.nodes[db'.rels[j].to], "Location"))
       ]_vars

\* A record with a departure location and an organization but no name has
\* been through both entity upserts.
C5_Witness ==
  /\ NoNameRow
  /\ pc = "connect"
  /\ "departure_location" \in DOMAIN fields.person
  /\ org_name # NULL

\* C6: one Record node per record_id; upsert_record on a new record_id sets
\* description, row_index, source_file, created_at and updated_at, and on an
\* existing one overwrites description, refreshes updated_at and leaves the
\* rest; no step changes created_at, row_index or source_file of a Record.
C6_RecordUpsert ==
  /\ [](\A i, j \in DOMAIN db.nodes :
          (/\ IsRecord(db.nodes[i])
           /\ IsRecord(db.nodes[j])
           /\ db.nodes[i].record_id = db.nodes[j].record_id) => i = j)
  /\ [][/\ \A i \in DOMAIN db.nodes :
             IsRecord(db.nodes[i]) =>
               /\ db'.nodes[i].record_id = db.nodes[i].record_id
               /\ db'.nodes[i].created_at = db.nodes[i].created_at
               /\ db'.nodes[i].row_index = db.nodes[i].row_index
               /\ db'.nodes[i].source_file = db.nodes[i].source_file
        /\ (pc = "rows" /\ pc' = "upsert_person") =>
             IF RecordIds(db.nodes, record_id) = {}
               THEN /\ Added(db.nodes, db'.nodes) = {Len(db.nodes) + 1}
                    /\ db'.nodes[Len(db'.nodes)] =
                         [labels      |-> {"Record"},
                          record_id   |-> record_id,
                          description |-> description,
                          row_index   |-> row,
                          source_file |-> "descriptions_only.xlsx",
                          created_at  |-> db.now,
                          updated_at  |-> db.now]
               ELSE /\ Added(db.nodes, db'.nodes) = {}
                    /\ \A i \in RecordIds(db.nodes, record_id) :
                         /\ db'.nodes[i].description = description
                         /\ db'.nodes[i].updated_at = db.now
       ]_vars

\* upsert_record has just matched a record whose description the edited
\* file changed.
C6_Witness ==
  /\ pc = "upsert_person"
  /\ \E i \in RecordIds(db.nodes, record_id) :
       /\ db.nodes[i].created_at < db.nodes[i].updated_at
       /\ i \in DOMAIN snapshot.nodes
       /\ snapshot.nodes[i].description # db.nodes[i].description
       /\ db.nodes[i].description = description

\* C7 as claimed: every relationship, the DESCRIBES one included, carries
\* source, first_seen and last_seen.
C7_EveryEdgeTimestamped ==
  \A j \in DOMAIN db.rels : Timestamped(db.rels[j])

\* The step about to be taken is a connect_person_to_org or
\* connect_person_to_locations write whose MERGE pattern is relationship r.
ObservedBy(r) ==
  \/ /\ pc = "location_rel"
     /\ r.type = LOCATION_REL_MAP[loc_i][2]
     /\ r.from \in EntityIds(db.nodes, "Person", person_name)
     /\ r.to \in EntityIds(db.nodes, "Location",
                           Get(fields.person, LOCATION_REL_MAP[loc_i][1]))
  \/ /\ pc = "locations"
     /\ loc_i > Len(LOCATION_REL_MAP)
     /\ org_name # NULL
     /\ r.type = "ASSOCIATED_WITH_ORG"
     /\ r.from \in EntityIds(db.nodes, "Person", person_name)
     /\ r.to \in EntityIds(db.nodes, "Organization", org_name)

\* C8: for Person->Organization and Person->Location edges, first_seen is
\* the time of creation and never changes; last_seen is set to the time of
\* every write that observes the edge, is left alone by every other step,
\* and never decreases.
C8_EdgeTimestamps ==
  [][/\ \A j \in DOMAIN db.rels :
          Timestamped(db.rels[j]) =>
            /\ db'.rels[j].first_seen = db.rels[j].first_seen
            /\ db'.rels[j].last_seen =
                 IF ObservedBy(db.rels[j]) THEN db.now ELSE db.rels[j].last_seen
            /\ db'.rels[j].last_seen >= db.rels[j].last_seen
     /\ \A j \in Added(db.rels, db'.rels) :
          Timestamped(db'.rels[j]) =>
            /\ db'.rels[j].first_seen = db.now
            /\ db'.rels[j].last_seen = db.now
    ]_vars

\* An organization edge and a location edge have each been observed again
\* after their creation.
C8_Witness ==
  /\ \E j \in DOMAIN db.rels :
       /\ db.rels[j].type = "ASSOCIATED_WITH_ORG"
       /\ db.rels[j].last_seen > db.rels[j].first_seen
  /\ \E j \in DOMAIN db.rels :
       /\ db.rels[j].type = "DEPARTED_FROM"
       /\ db.rels[j].last_seen > db.rels[j].first_seen

\* The value the current row's person fields give the n-th location field.
LocValue(n) == Get(fields.person, LOCATION_REL_MAP[n][1])

\* C9: location binding for a row with a resolved Person.  When the edge of
\* a pair is about to be written its Location node exists; once the loop is
\* past a pair with a value v, exactly one edge of the mapped type runs from
\* the Person to Location v; a step for a pair without a value writes
\* nothing, and a step for a pair with value v creates no Location other
\* than v and no edge other than Person -[mapped type]-> v.  The file with
\* the one record "NAME: Jane Roe; Citizenship: USA; Departure: JFK" ends
\* with one Person "Jane Roe", one Location "JFK" and one DEPARTED_FROM
\* edge between them.
C9_LocationBinding ==
  /\ [](pc = "location_rel" =>
          Cardinality(EntityIds(db.nodes, "Location", LocValue(loc_i))) = 1)
  /\ [](pc \in {"locations", "location_rel"} =>
          \A n \in DOMAIN LOCATION_REL_MAP :
            (n < loc_i /\ LocValue(n) # NULL) =>
              \E p \in EntityIds(db.nodes, "Person", person_name) :
                \E l \in EntityIds(db.nodes, "Location", LocValue(n)) :
                  Cardinality(RelsBetween(db.rels, LOCATION_REL_MAP[n][2], p, l)) = 1)
  /\ [][(pc \in {"locations", "location_rel"} /\ loc_i <= Len(LOCATION_REL_MAP)) =>
          IF LocValue(loc_i) = NULL
            THEN db'.nodes = db.nodes /\ db'.rels = db.rels
            ELSE /\ \A i \in Added(db.nodes, db'.nodes) :
                      /\ HasLabel(db'.nodes[i], "Location")
                      /\ db'.nodes[i].canonical_text = LocValue(loc_i)
                 /\ \A j \in Added(db.rels, db'.rels) :
                      /\ db'.rels[j].type = LOCATION_REL_MAP[loc_i][2]
                      /\ db'.rels[j].from \in
                           EntityIds(db.nodes, "Person", person_name)
                      /\ db'.rels[j].to \in
                           EntityIds(db.nodes, "Location", LocValue(loc_i))
       ]_vars
  /\ []((df = <<D_Jane>> /\ run = 1 /\ RunComplete) =>
          /\ CountLabel(db.nodes, "Person") = 1
          /\ CountLabel(db.nodes, "Location") = 1
          /\ \E p \in EntityIds(db.nodes, "Person", <<"Jane Roe">>) :
               \E l \in EntityIds(db.nodes, "Location", <<"JFK">>) :
                 {j \in DOMAIN db.rels : db.rels[j].type \in LocationTypes} =
                   RelsBetween(db.rels, "DEPARTED_FROM", p, l)
          /\ Cardinality({j \in DOMAIN db.rels :
                            db.rels[j].type = "DEPARTED_FROM"}) = 1)

\* The first run over the file with the one Jane Roe record is complete.
C9_Witness == df = <<D_Jane>> /\ run = 1 /\ RunComplete

\* C10: every relationship type is DESCRIBES, ASSOCIATED_WITH_ORG or a value
\* of LOCATION_REL_MAP.
C10_ClosedVocabulary ==
  \A j \in DOMAIN db.rels :
    db.rels[j].type \in {"DESCRIBES", "ASSOCIATED_WITH_ORG"} \cup LocationTypes

\* Relationships of the two fixed types and of two mapped types exist.
C10_Witness ==
  \A t \in {"DESCRIBES", "ASSOCIATED_WITH_ORG", "DEPARTED_FROM", "ARRIVED_AT"} :
    \E j \in DOMAIN db.rels : db.rels[j].type = t

(* ------------------------ main as one function ------------------------ *)
\* connect_person_to_locations from the n-th pair of LOCATION_REL_MAP on.
RECURSIVE connect_person_to_locations(_, _, _, _)
connect_person_to_locations(S, pname, pfields, n) ==
  IF n > Len(LOCATION_REL_MAP)
    THEN S
    ELSE LET lname == loc_name(pfields, n)
         IN IF lname = NULL
              THEN connect_person_to_locations(S, pname, pfields, n + 1)
              ELSE connect_person_to_locations(
                     connect_person_to_location(upsert_location(S, lname),
                                                pname, lname, rel_type(n)),
                     pname, pfields, n + 1)

\* The body of main's loop for the row at position i holding text.
process_row(S, i, text) ==
  LET d == clean_str(text)
  IN IF d = NULL
       THEN S
       ELSE LET id == <<RECORD_ID_PREFIX, i>>
                S1 == upsert_record(S, id, i, d)
                f  == extract_fields(d)
                pf == Get(f, "person")
                of == Get(f, "organization")
                rp == IF DOMAIN pf # {}
                        THEN upsert_person(S1, pf)
                        ELSE [ret |-> NULL, db |-> S1]
                ro == IF DOMAIN of # {}
                        THEN upsert_organization(rp.db, of)
                        ELSE [ret |-> NULL, db |-> rp.db]
            IN IF rp.ret = NULL
                 THEN ro.db
                 ELSE LET S2 == connect_person_to_locations(
                                  connect_record_to_person(ro.db, id, rp.ret),
                                  rp.ret, pf, 1)
                      IN IF ro.ret # NULL
                           THEN connect_person_to_org(S2, rp.ret, ro.ret)
                           ELSE S2

RECURSIVE process_rows(_, _, _)
process_rows(S, f, i) ==
  IF i > Len(f) THEN S ELSE process_rows(process_row(S, i, f[i]), f, i + 1)

\* The store one uninterrupted call of main leaves, from store S and file f.
main(S, f) == process_rows(ensure_schema_entity(ensure_schema_record(S)), f, 1)

(* ---------------------- a store write that raises --------------------- *)
\* The files of the runs in which a write may raise.
FailDescriptions == {D_JaneFromAcme, D_JaneOrg, D_NoName, D_Blank}

FailFiles == UNION {[1..n -> FailDescriptions] : n \in 1..MaxRows}

\* The store before the first run: empty, or as an earlier run left it.
InitialStores == {EmptyDb, main(EmptyDb, <<D_JaneOrg>>)}

\* main is about to call write().
WritePending ==
  \/ pc = "main" /\ run < MaxRuns
  \/ pc = "ensure_schema"
  \/ pc = "rows" /\ row <= Len(df) /\ description # NULL
  \/ pc = "upsert_person" /\ clean_str(Get(person_fields, "name")) # NULL
  \/ pc = "upsert_organization" /\ clean_str(Get(org_fields, "name")) # NULL
  \/ pc = "connect" /\ HasPerson
  \/ pc = "locations" /\ loc_i <= Len(LOCATION_REL_MAP)
       /\ loc_name(person_fields, loc_i) # NULL
  \/ pc = "locations" /\ loc_i > Len(LOCATION_REL_MAP) /\ org_name # NULL
  \/ pc = "location_rel"

\* Mutant: the exception is caught and main carries on where it was.
propagate_caught(p) == p

\* Where control goes when s.run raises at position p: neither write nor
\* any upsert_* / connect_* function nor main has a handler, so the
\* exception leaves main.
propagate(p) == "aborted"

InitFail ==
  /\ df \in FailFiles
  /\ db \in InitialStores
  /\ snapshot = db
  /\ pc = "main"
  /\ run = 0
  /\ row = 0
  /\ fields = NoFields
  /\ person_name = NULL
  /\ org_name = NULL
  /\ loc_i = 0
  /\ edited = FALSE
  /\ failed_run = 0
  /\ workers = <<>>
  /\ extract = NoExtract
  /\ search = NoSearch
  /\ index = NoIndex

\* s.run raises: the statement's auto-commit transaction leaves the store
\* as it was, and the exception propagates.
WriteFails ==
  /\ WritePending
  /\ run' = (IF pc = "main" THEN run + 1 ELSE run)
  /\ failed_run' = run'
  /\ pc' = propagate(pc)
  /\ UNCHANGED <<df, db, row, fields, person_name, org_name, loc_i, snapshot,
                 edited, workers, extract, search, index>>

\* `finally: driver.close()`: the process ends; main's locals are gone.
DriverClose ==
  /\ pc = "aborted"
  /\ pc' = "main"
  /\ row' = 0
  /\ fields' = NoFields
  /\ person_name' = NULL
  /\ org_name' = NULL
  /\ loc_i' = 0
  /\ UNCHANGED <<df, db, run, snapshot, edited, failed_run, workers, extract,
                 search, index>>

NextFail ==
  \/ EnsureSchemaRecord
  \/ EnsureSchemaEntity
  \/ SkipRow
  \/ UpsertRecord
  \/ UpsertPerson
  \/ UpsertOrganization
  \/ NoPerson
  \/ ConnectRecordToPerson
  \/ LocationSkip
  \/ UpsertLocation
  \/ ConnectPersonToLocation
  \/ ConnectPersonToOrg
  \/ NoOrg
  \/ Finish
  \/ WriteFails
  \/ DriverClose

SpecFail == InitFail /\ [][NextFail]_vars

\* A write of the current run has raised.
Failed == failed_run = run /\ run > 0 /\ pc # "main"

\* C11: a write that raises leaves the store as the completed writes made
\* it and ends the run: in the step that raises and in every later step of
\* that run the store does not change, and no write is pending again.
C11_FailureAborts ==
  /\ [](Failed => pc = "aborted" /\ ~WritePending)
  /\ [][(Failed \/ failed_run' # failed_run) => db' = db]_vars

\* A write raised after a record's Record and Person nodes were written
\* and before its DESCRIBES edge was; a later record is still unprocessed.
C11_Witness ==
  /\ pc = "aborted"
  /\ person_name # NULL
  /\ loc_i = 0
  /\ row < Len(df)
  /\ EntityIds(db.nodes, "Person", person_name) # {}
  /\ RecordIds(db.nodes, record_id) # {}
  /\ \A j \in DOMAIN db.rels :
       ~(db.rels[j].type = "DESCRIBES"
         /\ db.rels[j].from \in RecordIds(db.nodes, record_id))

(* ------------------- extract_fields on its own ------------------------ *)
MaxLen == 5

\* Two patterns for one label that capture differently: up to the next ";"
\* and up to the next "," or ";".
PSemi == [label |-> "name", until |-> {";"}]

PComma == [label |-> "name", until |-> {",", ";"}]

PatternLists == {<<>>, <<PSemi>>, <<PSemi, PComma>>, <<PComma, PSemi>>}

\* A group of FIELD_PATTERNS: field name -> its patterns in declared order.
GroupConfigs ==
  {[first |-> p, second |-> q] : p \in PatternLists, q \in {<<>>, <<PComma>>}}

ExtractTokens == {"NAME", ":", ";", ",", " ", "v"}

Texts == UNION {[1..n -> ExtractTokens] : n \in 0..MaxLen}

InitExtract ==
  /\ extract \in {[pc |-> "call", cfg |-> c, text |-> x, out |-> <<>>] :
                    c \in GroupConfigs, x \in Texts}
  /\ df = <<>>
  /\ db = EmptyDb
  /\ snapshot = EmptyDb
  /\ pc = "none"
  /\ run = 0
  /\ row = 0
  /\ fields = NoFields
  /\ person_name = NULL
  /\ org_name = NULL
  /\ loc_i = 0
  /\ edited = FALSE
  /\ failed_run = 0
  /\ workers = <<>>
  /\ search = NoSearch
  /\ index = NoIndex

\* The loop of extract_fields over the fields of one group.
ExtractGroup ==
  /\ extract.pc = "call"
  /\ extract' = [extract EXCEPT !.pc = "done",
                                !.out = group_out(extract.cfg, extract.text)]
  /\ UNCHANGED <<df, db, pc, run, row, fields, person_name, org_name, loc_i,
                 snapshot, edited, failed_run, workers, search, index>>

NextExtract == ExtractGroup

SpecExtract == InitExtract /\ [][NextExtract]_vars

\* The stripped capture of a pattern on a text (empty when it does not match).
Stripped(pat, text) ==
  strip(strip(re_search(pat, text).value, Whitespace), {"\"", ",", ";", " "})

\* The positions of the patterns that match with a non-empty stripped capture.
Hits(patterns, text) ==
  {n \in DOMAIN patterns :
     re_search(patterns[n], text).matched /\ Stripped(patterns[n], text) # <<>>}

\* C12: the value of a field is the stripped capture of the pattern at the
\* least position among those that match with a non-empty stripped capture,
\* whatever the later patterns capture; a field without such a pattern is
\* absent from the output, and the output has no other field.
C12_PatternPrecedence ==
  extract.pc = "done" =>
    /\ DOMAIN extract.out \subseteq DOMAIN extract.cfg
    /\ \A f \in DOMAIN extract.cfg :
         LET hits == Hits(extract.cfg[f], extract.text)
         IN IF hits = {}
              THEN f \notin DOMAIN extract.out
              ELSE /\ f \in DOMAIN extract.out
                   /\ \E n \in hits :
                        /\ \A k \in hits : n <= k
                        /\ extract.out[f] = Stripped(extract.cfg[f][n], extract.text)

\* Both patterns of a field match with different non-empty captures and the
\* first one's is stored; the other field, whose one pattern stops at the
\* ",", gets another value from the same text.
C12_Witness ==
  /\ extract.pc = "done"
  /\ \E f, g \in DOMAIN extract.cfg :
       /\ Hits(extract.cfg[f], extract.text) = {1, 2}
       /\ Stripped(extract.cfg[f][1], extract.text)
            # Stripped(extract.cfg[f][2], extract.text)
       /\ extract.out[f] = Stripped(extract.cfg[f][1], extract.text)
       /\ Len(extract.cfg[g]) = 1
       /\ g \in DOMAIN extract.out
       /\ extract.out[g] # extract.out[f]

(* ------------------- claims about main, continued --------------------- *)
RowPcs ==
  {"upsert_person", "upsert_organization", "connect", "locations", "location_rel"}

\* main is processing a row with a person name and no organization name.
NoOrgRow ==
  /\ pc \in RowPcs
  /\ Get(fields.person, "name") # NULL
  /\ Get(fields.organization, "name") = NULL

\* C13: while a record with a person name and no organization name is
\* processed, no step creates an Organization node or an
\* ASSOCIATED_WITH_ORG edge; upsert_person leaves the Person node, stamped
\* with the time of that write, and the step after the two entity upserts
\* leaves a DESCRIBES edge from the record's node to the Person node.
C13_NoOrgStillPerson ==
  /\ []((NoOrgRow /\ pc = "upsert_organization") =>
          \E p \in EntityIds(db.nodes, "Person", Get(fields.person, "name")) :
            db.nodes[p].updated_at = db.now - 1)
  /\ [][NoOrgRow =>
          /\ CountLabel(db'.nodes, "Organization")
               = CountLabel(db.nodes, "Organization")
          /\ \A j \in Added(db.rels, db'.rels) :
               db'.rels[j].type # "ASSOCIATED_WITH_ORG"
          /\ pc = "connect" =>
               \E r \in RecordIds(db'.nodes, record_id) :
                 \E p \in EntityIds(db'.nodes, "Person",
                                    Get(fields.person, "name")) :
                   RelsBetween(db'.rels, "DESCRIBES", r, p) # {}
       ]_vars

\* The first record of the first run names a person and a location and no
\* organization, and main is through with its relationships.
C13_Witness ==
  /\ NoOrgRow
  /\ run = 1
  /\ row = 1
  /\ pc = "locations"
  /\ loc_i > Len(LOCATION_REL_MAP)
  /\ CountLabel(db.nodes, "Organization") = 0
  /\ CountLabel(db.nodes, "Location") = 1
  /\ Len(db.rels) = 2

\* The person name main extracts from the row at position i of the file.
RowName(i) ==
  LET d == clean_str(df[i])
  IN IF d = NULL THEN NULL ELSE Get(extract_fields(d).person, "name")

\* C14: at the end of a run every row with a person name has exactly one
\* Person node of that canonical_text, whichever and however many rows name
\* it, and exactly one DESCRIBES edge from the row's own Record node to it;
\* after the first run there are as many Person nodes as distinct names.
C14_CanonicalCollapse ==
  RunComplete =>
    /\ \A i \in DOMAIN df :
         RowName(i) # NULL =>
           /\ Cardinality(EntityIds(db.nodes, "Person", RowName(i))) = 1
           /\ Cardinality(RecordIds(db.nodes, <<RECORD_ID_PREFIX, i>>)) = 1
           /\ \A r \in RecordIds(db.nodes, <<RECORD_ID_PREFIX, i>>) :
                \A p \in EntityIds(db.nodes, "Person", RowName(i)) :
                  Cardinality(RelsBetween(db.rels, "DESCRIBES", r, p)) = 1
    /\ run = 1 =>
         CountLabel(db.nodes, "Person")
           = Cardinality({RowName(i) : i \in DOMAIN df} \ {NULL})

\* Two rows spell the same name differently in their text; two Record nodes
\* describe the one Person node.
C14_Witness ==
  /\ RunComplete
  /\ run = 1
  /\ Len(df) = 2
  /\ df[1] # df[2]
  /\ RowName(1) = RowName(2)
  /\ RowName(1) # NULL
  /\ CountLabel(db.nodes, "Person") = 1
  /\ Cardinality({j \in DOMAIN db.rels : db.rels[j].type = "DESCRIBES"}) = 2

(* ------------------ records processed by parallel workers ------------- *)
\* The locals of main's loop body at its start for the row at position i.
Local(i) ==
  [pc |-> "rows", row |-> i, fields |-> NoFields, person_name |-> NULL,
   org_name |-> NULL, loc_i |-> 0]

\* One step of main's loop body on the file f, from the locals l and the
\* store S: the locals and the store after it.
step(S, f, l) ==
  LET d  == clean_str(f[l.row])
      id == <<RECORD_ID_PREFIX, l.row>>
      pf == Get(l.fields, "person")
      of == Get(l.fields, "organization")
  IN CASE l.pc = "rows" ->
            IF d = NULL
              THEN [db |-> S, local |-> [l EXCEPT !.pc = "done"]]
              ELSE [db |-> upsert_record(S, id, l.row, d),
                    local |-> [l EXCEPT !.pc = "upsert_person",
                                        !.fields = extract_fields(d)]]
       [] l.pc = "upsert_person" ->
            LET r == IF DOMAIN pf # {}
                       THEN upsert_person(S, pf)
                       ELSE [ret |-> NULL, db |-> S]
            IN [db |-> r.db,
                local |-> [l EXCEPT !.pc = "upsert_organization",
                                    !.person_name = r.ret]]
       [] l.pc = "upsert_organization" ->
            LET r == IF DOMAIN of # {}
                       THEN upsert_organization(S, of)
                       ELSE [ret |-> NULL, db |-> S]
            IN [db |-> r.db,
                local |-> [l EXCEPT !.pc = "connect", !.org_name = r.ret]]
       [] l.pc = "connect" ->
            IF l.person_name = NULL
              THEN [db |-> S, local |-> [l EXCEPT !.pc = "done"]]
              ELSE [db |-> connect_record_to_person(S, id, l.person_name),
                    local |-> [l EXCEPT !.pc = "locations", !.loc_i = 1]]
       [] l.pc = "locations" /\ l.loc_i <= Len(LOCATION_REL_MAP) ->
            IF loc_name(pf, l.loc_i) = NULL
              THEN [db |-> S, local |-> [l EXCEPT !.loc_i = @ + 1]]
              ELSE [db |-> upsert_location(S, loc_name(pf, l.loc_i)),
                    local |-> [l EXCEPT !.pc = "location_rel"]]
       [] l.pc = "locations" /\ l.loc_i > Len(LOCATION_REL_MAP) ->
            [db |-> IF l.org_name # NULL
                      THEN connect_person_to_org(S, l.person_name, l.org_name)
                      ELSE S,
             local |-> [l EXCEPT !.pc = "done"]]
       [] l.pc = "location_rel" ->
            [db |-> connect_person_to_location(S, l.person_name,
                      loc_name(pf, l.loc_i), rel_type(l.loc_i)),
             local |-> [l EXCEPT !.pc = "locations", !.loc_i = @ + 1]]

\* The steps of the loop body up to and including its next write(), or to
\* the end of the body when no write is left: what happens between two
\* writes is local to the worker.
RECURSIVE to_write(_, _, _)
to_write(S, f, l) ==
  LET r == step(S, f, l)
  IN IF r.db # S \/ r.local.pc = "done" THEN r ELSE to_write(S, f, r.local)

D_JaneAcme ==
  <<"Name", ":", " ", "Jane Roe", ";", " ", "Citizenship", ":", " ", "UK", ";",
    " ", "Org", ":", " ", "Acme">>

\* The files of a parallel run.
ParDescriptions == {D_Jane, D_JaneAcme, D_NoName, D_Blank}

ParFiles == UNION {[1..n -> ParDescriptions] : n \in 1..MaxRows}

\* The store's clock as a statement of one of several concurrent sessions
\* finds it: the sessions run within one tick of datetime().
same_instant(S, T) == [T EXCEPT !.now = S.now]

InitPar ==
  /\ df \in ParFiles
  /\ db \in InitialStores
  /\ snapshot = db
  /\ workers = [i \in DOMAIN df |-> Local(i)]
  /\ pc = "main"
  /\ run = 0
  /\ row = 0
  /\ fields = NoFields
  /\ person_name = NULL
  /\ org_name = NULL
  /\ loc_i = 0
  /\ edited = FALSE
  /\ failed_run = 0
  /\ extract = NoExtract
  /\ search = NoSearch
  /\ index = NoIndex

\* Worker w, at position p of the loop body, takes its next step; a write
\* is applied to the store atomically.
WorkerStep(w, p) ==
  /\ pc = "rows"
  /\ workers[w].pc = p
  /\ LET r == to_write(db, df, workers[w])
     IN /\ workers' = [workers EXCEPT ![w] = r.local]
        /\ db' = same_instant(db, r.db)
  /\ UNCHANGED <<df, pc, run, row, fields, person_name, org_name, loc_i,
                 snapshot, edited, failed_run, extract, search, index>>

WorkerRecord == \E w \in DOMAIN workers : WorkerStep(w, "rows")

WorkerPerson == \E w \in DOMAIN workers : WorkerStep(w, "upsert_person")

WorkerOrganization ==
  \E w \in DOMAIN workers : WorkerStep(w, "upsert_organization")

WorkerConnect == \E w \in DOMAIN workers : WorkerStep(w, "connect")

WorkerLocations == \E w \in DOMAIN workers : WorkerStep(w, "locations")

WorkerLocationRel == \E w \in DOMAIN workers : WorkerStep(w, "location_rel")

NextPar ==
  \/ EnsureSchemaRecord
  \/ EnsureSchemaEntity
  \/ WorkerRecord
  \/ WorkerPerson
  \/ WorkerOrganization
  \/ WorkerConnect
  \/ WorkerLocations
  \/ WorkerLocationRel

SpecPar == InitPar /\ [][NextPar]_vars

\* Every worker has finished its record.
ParDone == pc = "rows" /\ \A w \in DOMAIN workers : workers[w].pc = "done"

\* Two nodes are the same Record or the same Entity.
SameNode(a, b) ==
  /\ a.labels = b.labels
  /\ IsRecord(a) => a.record_id = b.record_id
  /\ IsEntity(a) =>
       a.entity_type = b.entity_type /\ a.canonical_text = b.canonical_text

\* Every node of S is a node of T, and every edge of S an edge of T of the
\* same type between the same nodes.
Within(S, T) ==
  /\ \A i \in DOMAIN S.nodes :
       \E k \in DOMAIN T.nodes : SameNode(S.nodes[i], T.nodes[k])
  /\ \A j \in DOMAIN S.rels :
       \E k \in DOMAIN T.rels :
         /\ S.rels[j].type = T.rels[k].type
         /\ SameNode(S.nodes[S.rels[j].from], T.nodes[T.rels[k].from])
         /\ SameNode(S.nodes[S.rels[j].to], T.nodes[T.rels[k].to])

\* C15: with one worker per record and their writes interleaved in any
\* order, each write atomic: no two Entity nodes share an identity, no two
\* Record nodes a record_id, no two edges a type and an ordered pair; no
\* step replaces a non-null attribute of an Entity; and when all workers are
\* done the store has the nodes and edges that main, run alone from the
\* same store over the same file, leaves.
C15_ParallelWorkers ==
  /\ [](/\ \A i, k \in DOMAIN db.nodes :
             SameNode(db.nodes[i], db.nodes[k]) => i = k
        /\ \A j, k \in DOMAIN db.rels :
             (/\ db.rels[j].type = db.rels[k].type
              /\ db.rels[j].from = db.rels[k].from
              /\ db.rels[j].to = db.rels[k].to) => j = k)
  /\ [][\A i \in DOMAIN db.nodes :
          IsEntity(db.nodes[i]) =>
            \A a \in EntityAttrs(db.nodes[i]) :
              db.nodes[i][a] # NULL => db'.nodes[i][a] = db.nodes[i][a]]_vars
  /\ [](ParDone =>
          LET T == main(snapshot, df)
          IN /\ Within(db, T)
             /\ Within(T, db)
             /\ Len(db.nodes) = Len(T.nodes)
             /\ Len(db.rels) = Len(T.rels))

\* Two workers have finished records that name the same person with
\* different citizenships; the second record's worker wrote the Person
\* first, so the node keeps a citizenship main alone would not have kept,
\* and the nodes were created in another order than main's.
C15_Witness ==
  /\ ParDone
  /\ Len(df) = 2
  /\ RowName(1) # NULL
  /\ RowName(1) = RowName(2)
  /\ LET T == main(snapshot, df)
     IN /\ \E i \in DOMAIN db.nodes : ~SameNode(db.nodes[i], T.nodes[i])
        /\ \E i \in EntityIds(db.nodes, "Person", RowName(1)) :
             \E k \in EntityIds(T.nodes, "Person", RowName(1)) :
               db.nodes[i].citizenship # T.nodes[k].citizenship

(* ---------------------- recovery after a failure ---------------------- *)
NoTimes(x) ==
  [k \in DOMAIN x \ {"created_at", "updated_at", "first_seen", "last_seen"} |->
     x[k]]

\* The nodes and edges of a store with every property but the timestamps.
Untimed(S) ==
  [nodes |-> [i \in DOMAIN S.nodes |-> NoTimes(S.nodes[i])],
   rels  |-> [j \in DOMAIN S.rels |-> NoTimes(S.rels[j])]]

\* The run before this one was aborted by a write that raised, and this
\* run has processed the whole file.  snapshot is the store as it was
\* before the aborted run (or the first of several aborted in a row).
Recovered == RunComplete /\ failed_run > 0 /\ failed_run = run - 1

\* C16: a complete run after an aborted one leaves the nodes, the edges and
\* every property other than the four timestamps as one uninterrupted call
\* of main leaves them from the store the aborted run started on.
C16_RecoveryByRerun ==
  Recovered => Untimed(db) = Untimed(main(snapshot, df))

\* The aborted run created a Record node that the complete run matched, and
\* the complete run created a Record node the aborted run never reached.
C16_Witness ==
  /\ Recovered
  /\ \E i, k \in Added(snapshot.nodes, db.nodes) :
       /\ IsRecord(db.nodes[i])
       /\ IsRecord(db.nodes[k])
       /\ db.nodes[i].updated_at > db.nodes[i].created_at
       /\ db.nodes[k].updated_at = db.nodes[k].created_at
  /\ \E j \in DOMAIN db.rels : db.rels[j].type = "DEPARTED_FROM"

(* ------------------ claims about main: schema, lifecycle -------------- *)
RecordConstraint == <<"Record", <<"record_id">> >>

EntityConstraint == <<"Entity", <<"entity_type", "canonical_text">> >>

\* C17: in every run the first two writes are the two constraint
\* declarations, Record.record_id then Entity (entity_type,
\* canonical_text): they touch no node and no edge, every write to a node
\* or an edge comes after them with both constraints declared, and a
\* declaration on a store that has the constraint leaves the constraints,
\* the nodes and the edges as they are.
C17_SchemaFirst ==
  /\ [](pc \notin {"main", "ensure_schema"} =>
          {RecordConstraint, EntityConstraint} \subseteq db.constraints)
  /\ [][/\ pc = "main" /\ db' # db =>
             /\ pc' = "ensure_schema"
             /\ db'.constraints = db.constraints \cup {RecordConstraint}
             /\ db'.nodes = db.nodes /\ db'.rels = db.rels
        /\ pc = "ensure_schema" =>
             /\ pc' = "rows"
             /\ db'.constraints = db.constraints \cup {EntityConstraint}
             /\ db'.nodes = db.nodes /\ db'.rels = db.rels
        /\ pc \notin {"main", "ensure_schema"} =>
             db'.constraints = db.constraints
        /\ (db'.nodes # db.nodes \/ db'.rels # db.rels) =>
             /\ pc \notin {"main", "ensure_schema"}
             /\ {RecordConstraint, EntityConstraint} \subseteq db.constraints
       ]_vars

\* The second run has repeated both declarations on a store with nodes and
\* edges and is about to process its first row.
C17_Witness ==
  /\ run = 2
  /\ pc = "rows"
  /\ row = 1
  /\ db.now = snapshot.now + 2
  /\ db.constraints = snapshot.constraints
  /\ db.nodes = snapshot.nodes
  /\ Len(db.nodes) >= 3
  /\ Len(db.rels) >= 2

NoLastSeen(r) == [k \in DOMAIN r \ {"last_seen"} |-> r[k]]

\* C18: no step removes a node or an edge or turns a node into another
\* one: every node keeps its labels and its key, and every edge keeps its
\* type, its end nodes and every property except last_seen.
C18_MonotonicLifecycle ==
  [][/\ Len(db'.nodes) >= Len(db.nodes)
     /\ Len(db'.rels) >= Len(db.rels)
     /\ \A i \in DOMAIN db.nodes :
          /\ db'.nodes[i].labels = db.nodes[i].labels
          /\ IsRecord(db.nodes[i]) =>
               db'.nodes[i].record_id = db.nodes[i].record_id
          /\ IsEntity(db.nodes[i]) =>
               /\ db'.nodes[i].entity_type = db.nodes[i].entity_type
               /\ db'.nodes[i].canonical_text = db.nodes[i].canonical_text
     /\ \A j \in DOMAIN db.rels :
          NoLastSeen(db'.rels[j]) = NoLastSeen(db.rels[j])
    ]_vars

\* A second run over an edited file has added nodes and edges to those of
\* the first and has observed again an edge the first run created.
C18_Witness ==
  /\ run = 2
  /\ edited
  /\ RunComplete
  /\ Len(db.nodes) > Len(snapshot.nodes)
  /\ Len(db.rels) > Len(snapshot.rels)
  /\ \E j \in DOMAIN snapshot.rels :
       /\ Timestamped(db.rels[j])
       /\ db.rels[j].last_seen > snapshot.rels[j].last_seen

\* The step about to be taken is an upsert whose MERGE pattern is node i.
UpsertMatches(i) ==
  \/ /\ pc = "upsert_person"
     /\ i \in EntityIds(db.nodes, "Person", Get(fields.person, "name"))
  \/ /\ pc = "upsert_organization"
     /\ i \in EntityIds(db.nodes, "Organization",
                        Get(fields.organization, "name"))
  \/ /\ pc = "locations"
     /\ loc_i <= Len(LOCATION_REL_MAP)
     /\ i \in EntityIds(db.nodes, "Location", LocValue(loc_i))

\* C19: no step changes canonical_text, entity_type or created_at of an
\* Entity node; an upsert that matches the node sets updated_at to the
\* time of that write, every other step leaves it, and it never decreases.
C19_EntityTimestamps ==
  [][\A i \in DOMAIN db.nodes :
       IsEntity(db.nodes[i]) =>
         /\ db'.nodes[i].canonical_text = db.nodes[i].canonical_text
         /\ db'.nodes[i].entity_type = db.nodes[i].entity_type
         /\ db'.nodes[i].created_at = db.nodes[i].created_at
         /\ db'.nodes[i].updated_at =
              IF UpsertMatches(i) THEN db.now ELSE db.nodes[i].updated_at
         /\ db'.nodes[i].updated_at >= db.nodes[i].updated_at
         /\ db'.nodes[i].updated_at >= db'.nodes[i].created_at
    ]_vars

\* upsert_location has just matched a Location that an earlier run created.
C19_Witness ==
  /\ pc = "location_rel"
  /\ run = 2
  /\ \E i \in EntityIds(db.nodes, "Location", LocValue(loc_i)) :
       /\ i \in DOMAIN snapshot.nodes
       /\ db.nodes[i].updated_at = db.now - 1
       /\ db.nodes[i].updated_at > snapshot.nodes[i].updated_at
       /\ db.nodes[i].created_at = snapshot.nodes[i].created_at

(* ---------- bert_elser_pipeline.py: BertDescriptionElser -------------- *)
\* _coerce_str: None for None and for a string that strips to nothing.
coerce_str(v) ==
  IF v = NULL
    THEN NULL
    ELSE LET s == strip(v, Whitespace) IN IF s # <<>> THEN s ELSE NULL

description_col == "Description"

model_id == ".elser_model_2_linux-x86_64"

match_clause(question) ==
  [kind |-> "match", field |-> description_col, query |-> question,
   boost |-> "0.6"]

text_expansion_clause(question) ==
  [kind |-> "text_expansion", field |-> "ml.description_tokens",
   model_id |-> model_id, model_text |-> question]

\* Mutant: the ELSER clause depends on the instance's preference only.
build_body_elser(use_ml_requested, question, size, include_elser, fields_to_return) ==
  LET should == IF use_ml_requested
                  THEN <<match_clause(question), text_expansion_clause(question)>>
                  ELSE <<match_clause(question)>>
  IN IF fields_to_return # <<>>
       THEN [size |-> size, should |-> should, minimum_should_match |-> 1,
             source |-> fields_to_return]
       ELSE [size |-> size, should |-> should, minimum_should_match |-> 1]

\* _build_body; use_ml_requested is self.use_ml_requested.
build_body(use_ml_requested, question, size, include_elser, fields_to_return) ==
  LET should == IF include_elser /\ use_ml_requested
                  THEN <<match_clause(question), text_expansion_clause(question)>>
                  ELSE <<match_clause(question)>>
  IN IF fields_to_return # <<>>
       THEN [size |-> size, should |-> should, minimum_should_match |-> 1,
             source |-> fields_to_return]
       ELSE [size |-> size, should |-> should, minimum_should_match |-> 1]

\* What self.es.search can do: return a response, raise ApiError (the
\* server answered 4xx/5xx), or raise an error that is no ApiError.
Hit1 == ("_score" :> 2) @@ ("_source" :> ("Description" :> "d"))

Hit2 == ("_source" :> ("Description" :> "e"))

Outcomes ==
  {[kind |-> "response", hits |-> h] : h \in {<<>>, <<Hit1>>, <<Hit1, Hit2>>}}
    \cup {[kind |-> "ApiError"], [kind |-> "TransportError"]}

\* {"_score": h.get("_score", 0.0), **src}
row_of(h) ==
  LET src == IF "_source" \in DOMAIN h THEN h["_source"] ELSE <<>>
  IN [k \in {"_score"} \cup DOMAIN src |->
        IF k \in DOMAIN src
          THEN src[k]
          ELSE IF "_score" \in DOMAIN h THEN h["_score"] ELSE 0]

Questions == {NULL, <<" ">>, <<"q">>, <<" ", "q", " ">>}

InitSearch ==
  /\ search \in {[pc |-> "call", use_ml |-> m, question |-> q, size |-> s,
                  hybrid |-> h, fields_to_return |-> f, log |-> <<>>,
                  res |-> <<>>, ret |-> <<>>, error |-> "none"] :
                   m \in BOOLEAN, q \in Questions, s \in {1, 10},
                   h \in BOOLEAN, f \in {<<>>, <<"Description">>}}
  /\ extract = NoExtract
  /\ df = <<>>
  /\ db = EmptyDb
  /\ snapshot = EmptyDb
  /\ pc = "none"
  /\ run = 0
  /\ row = 0
  /\ fields = NoFields
  /\ person_name = NULL
  /\ org_name = NULL
  /\ loc_i = 0
  /\ edited = FALSE
  /\ failed_run = 0
  /\ workers = <<>>
  /\ index = NoIndex

MainIdle ==
  UNCHANGED <<df, db, pc, run, row, fields, person_name, org_name, loc_i,
              snapshot, edited, failed_run, workers, extract, index>>

\* `if not _coerce_str(question): raise ValueError(...)`
CheckQuestion ==
  /\ search.pc = "call"
  /\ search' = IF coerce_str(search.question) = NULL
                 THEN [search EXCEPT !.pc = "raised", !.error = "ValueError"]
                 ELSE [search EXCEPT !.pc = "try"]
  /\ MainIdle

\* The try block: the body with include_elser=hybrid, then es.search.
FirstSearch ==
  /\ search.pc = "try"
  /\ \E o \in Outcomes :
       LET body == build_body(search.use_ml, search.question, search.size,
                              search.hybrid, search.fields_to_return)
           log  == Append(search.log, [body |-> body, outcome |-> o])
       IN search' =
            CASE o.kind = "response" ->
                   [search EXCEPT !.pc = "rows", !.log = log, !.res = o.hits]
              [] o.kind = "ApiError" ->
                   [search EXCEPT !.pc = "except", !.log = log]
              [] OTHER ->
                   [search EXCEPT !.pc = "raised", !.log = log, !.error = o.kind]
  /\ MainIdle

\* The except ApiError block: the body with include_elser=False, then
\* es.search; whatever it raises leaves semantic_search.
SecondSearch ==
  /\ search.pc = "except"
  /\ \E o \in Outcomes :
       LET body == build_body(search.use_ml, search.question, search.size,
                              FALSE, search.fields_to_return)
           log  == Append(search.log, [body |-> body, outcome |-> o])
       IN search' =
            IF o.kind = "response"
              THEN [search EXCEPT !.pc = "rows", !.log = log, !.res = o.hits]
              ELSE [search EXCEPT !.pc = "raised", !.log = log, !.error = o.kind]
  /\ MainIdle

\* The rows of the response, returned as a DataFrame.
ReturnRows ==
  /\ search.pc = "rows"
  /\ search' = [search EXCEPT
                  !.pc = "returned",
                  !.ret = [k \in DOMAIN search.res |-> row_of(search.res[k])]]
  /\ MainIdle

NextSearch ==
  \/ CheckQuestion
  \/ FirstSearch
  \/ SecondSearch
  \/ ReturnRows

SpecSearch == InitSearch /\ [][NextSearch]_vars

\* The BM25 clause and the ELSER clause of a request for question q.
Bm25(q) ==
  [kind |-> "match", field |-> "Description", query |-> q, boost |-> "0.6"]

Elser(q) ==
  [kind |-> "text_expansion", field |-> "ml.description_tokens",
   model_id |-> ".elser_model_2_linux-x86_64", model_text |-> q]

\* C20: semantic_search makes no request for a question that is None or
\* strips to nothing and raises ValueError; otherwise its first request
\* carries the BM25 clause, and the ELSER clause as well exactly when hybrid
\* and use_ml are both set; a second request is made exactly when the first
\* raised ApiError, and it carries the BM25 clause alone; there is never a
\* third; the rows returned are those of the last response; an error of the
\* second request, or a first error that is no ApiError, leaves the call.
C20_SearchFallback ==
  LET n == Len(search.log)
      q == search.question
      last == search.log[n].outcome
  IN /\ n <= 2
     /\ strip(q, {" ", "\t", "\n"}) = <<>> =>
          /\ n = 0
          /\ search.pc \in {"call", "raised"}
          /\ search.pc = "raised" => search.error = "ValueError"
     /\ n >= 1 =>
          search.log[1].body.should =
            IF search.hybrid /\ search.use_ml
              THEN <<Bm25(q), Elser(q)>>
              ELSE <<Bm25(q)>>
     /\ n = 2 =>
          /\ search.log[1].outcome.kind = "ApiError"
          /\ search.log[2].body.should = <<Bm25(q)>>
          /\ search.log[2].body.size = search.size
     /\ (n = 1 /\ search.log[1].outcome.kind = "ApiError") => search.pc = "except"
     /\ (search.pc \in {"rows", "returned"}) => last.kind = "response"
     /\ search.pc = "returned" =>
          /\ Len(search.ret) = Len(last.hits)
          /\ \A k \in DOMAIN last.hits :
               /\ search.ret[k]["Description"] = last.hits[k]["_source"]["Description"]
               /\ search.ret[k]["_score"] =
                    IF "_score" \in DOMAIN last.hits[k]
                      THEN last.hits[k]["_score"]
                      ELSE 0
     /\ (search.pc = "raised" /\ n >= 1) =>
          /\ search.error = last.kind
          /\ last.kind # "response"
          /\ n = 1 => last.kind = "TransportError"

\* The hybrid request raised ApiError and the rows of the BM25-only
\* request's response were returned.
C20_Witness ==
  /\ search.pc = "returned"
  /\ Len(search.log) = 2
  /\ Len(search.log[1].body.should) = 2
  /\ Len(search.log[2].body.should) = 1
  /\ Len(search.ret) = 2

(* ----------------- entity groups resolved independently ---------------- *)
\* main is processing a row with an organization name and no person name.
OrgOnlyRow ==
  /\ pc \in RowPcs
  /\ Get(fields.person, "name") = NULL
  /\ Get(fields.organization, "name") # NULL

\* C22: while a record with an organization name and no person name is
\* processed, the step after upsert_person leaves exactly one Organization
\* node with that name, stamped with the time of that write, and no step
\* of the record adds an edge of any kind, so none to or from that node.
C22_OrgWithoutPerson ==
  /\ []((OrgOnlyRow /\ pc = "connect") =>
          /\ org_name = Get(fields.organization, "name")
          /\ Cardinality(EntityIds(db.nodes, "Organization", org_name)) = 1
          /\ \A o \in EntityIds(db.nodes, "Organization", org_name) :
               db.nodes[o].updated_at = db.now - 1)
  /\ [][OrgOnlyRow =>
          /\ pc = "upsert_organization" => db'.now = db.now + 1
          /\ \A j \in Added(db.rels, db'.rels) :
               \A o \in EntityIds(db'.nodes, "Organization",
                                  Get(fields.organization, "name")) :
                 db'.rels[j].from # o /\ db'.rels[j].to # o
          /\ db'.rels = db.rels
       ]_vars

\* The first record of the first run names an organization and no person,
\* and main has left the record: the store holds the Record node and the
\* Organization node and no edge.
C22_Witness ==
  /\ run = 1
  /\ pc = "rows"
  /\ row = 2
  /\ df[1] = D_NoName
  /\ CountLabel(db.nodes, "Organization") = 1
  /\ CountLabel(db.nodes, "Person") = 0
  /\ db.rels = <<>>

(* ------------------------ endpoints of the edges ----------------------- *)
\* Both ends of relationship r are nodes of S, the first with label `from`
\* and the second with label `to`.
Joins(S, r, from, to) ==
  /\ r.from \in DOMAIN S.nodes
  /\ r.to \in DOMAIN S.nodes
  /\ HasLabel(S.nodes[r.from], from)
  /\ HasLabel(S.nodes[r.to], to)

\* C24: in every state of every run, runs in which a write raised and the
\* runs after them included, every edge of the store joins two nodes of the
\* store: a DESCRIBES edge a Record node to a Person node, an
\* ASSOCIATED_WITH_ORG edge a Person node to an Organization node, and an
\* edge of a location type a Person node to a Location node; there is no
\* edge of another type.
C24_TypedEndpoints ==
  \A j \in DOMAIN db.rels :
    LET r == db.rels[j]
    IN \/ r.type = "DESCRIBES" /\ Joins(db, r, RECORD_LABEL, "Person")
       \/ r.type = "ASSOCIATED_WITH_ORG" /\ Joins(db, r, "Person", "Organization")
       \/ r.type \in LocationTypes /\ Joins(db, r, "Person", "Location")

\* A write raised in a run over a store that holds a place and an
\* organization of one name and a person with an edge of each kind, the
\* one to the place included.
C24_Witness ==
  /\ pc = "aborted"
  /\ failed_run = run
  /\ EntityIds(db.nodes, "Organization", <<"Acme">>) # {}
  /\ \E p \in EntityIds(db.nodes, "Person", <<"Jane Roe">>) :
       /\ \E j \in DOMAIN db.rels :
            db.rels[j].type = "DESCRIBES" /\ db.rels[j].to = p
       /\ \E j \in DOMAIN db.rels :
            /\ db.rels[j].type = "ASSOCIATED_WITH_ORG"
            /\ db.rels[j].from = p
       /\ \E l \in EntityIds(db.nodes, "Location", <<"Acme">>) :
            \E j \in DOMAIN db.rels :
              /\ db.rels[j].type \in LocationTypes
              /\ db.rels[j].from = p
              /\ db.rels[j].to = l

(* ------------- location attributes and location edges ------------------ *)
\* main is between two records, or before the first or after the last.
RecordBoundary == pc \notin RowPcs

\* Person node p of S has, for every pair of LOCATION_REL_MAP whose field
\* it stores a value v for, an edge of the pair's type to Location v.
LocationsBound(S, p) ==
  \A n \in DOMAIN LOCATION_REL_MAP :
    LET v == Get(S.nodes[p], LOCATION_REL_MAP[n][1])
    IN v # NULL =>
         \E l \in EntityIds(S.nodes, "Location", v) :
           RelsBetween(S.rels, LOCATION_REL_MAP[n][2], p, l) # {}

\* C25: whenever main is not inside a record, every Person node of the
\* store has an edge of the mapped type to the Location node of every
\* location attribute it stores.
C25_AttributesHaveEdges ==
  RecordBoundary =>
    \A p \in DOMAIN db.nodes :
      HasLabel(db.nodes[p], "Person") => LocationsBound(db, p)

\* A run is complete in which one person got the departure location from
\* the first record and the arrival location from the second.
C25_Witness ==
  /\ RunComplete
  /\ df = <<D_Jane, D_JaneOrg>>
  /\ \E p \in EntityIds(db.nodes, "Person", <<"Jane Roe">>) :
       /\ db.nodes[p].departure_location # NULL
       /\ db.nodes[p].arrival_location # NULL

(* ------------------ run_bert_elser_test.ensure_indexed ----------------- *)
pipeline_id == "elser_v2_description_only"

\* The Description column of the file: a missing index value is not a case,
\* every cell is text.
Cells == {<<>>, <<" ">>, <<"d">>, <<" ", "e", " ">>}

IndexFiles == UNION {[1..n -> Cells] : n \in 1..MaxRows}

\* _sanitize_dataframe: the stripped column without its empty rows.
NonEmpty(s) == s # <<>>

sanitize_dataframe(rows) ==
  SelectSeq([k \in DOMAIN rows |-> strip(rows[k], Whitespace)], NonEmpty)

\* _iter_actions: one index action per row, with the ingest pipeline when
\* ML was requested.
iter_actions(rows, use_ml_requested) ==
  [k \in DOMAIN rows |->
     [op_type  |-> "index",
      source   |-> rows[k],
      pipeline |-> IF use_ml_requested THEN {pipeline_id} ELSE {}]]

\* What the cluster does with one action of a bulk request: without a
\* pipeline the document is stored as it is; with one, the inference
\* processor adds the tokens, and the item fails when the pipeline does not
\* exist or its model is not available (the processor has no on_failure).
ingest(es, action) ==
  IF action.pipeline = {}
    THEN [ok |-> TRUE, doc |-> [source |-> action.source, tokens |-> FALSE]]
    ELSE IF es.pipeline /\ es.elser
           THEN [ok |-> TRUE, doc |-> [source |-> action.source, tokens |-> TRUE]]
           ELSE [ok |-> FALSE, doc |-> [source |-> action.source, tokens |-> FALSE]]

IsOk(r) == r.ok

IsError(r) == ~r.ok

\* helpers.bulk over one chunk: the items that pass are stored, and any item
\* that fails makes it raise BulkIndexError with the failed items.
bulk(es, actions) ==
  LET items == [k \in DOMAIN actions |-> ingest(es, actions[k])]
      stored == SelectSeq(items, IsOk)
  IN [errors |-> SelectSeq(items, IsError),
      es     |-> [es EXCEPT !.docs = @ \o [k \in DOMAIN stored |-> stored[k].doc]]]

\* bulk_index_dataframe: ValueError when no row is left, RuntimeError from
\* BulkIndexError.
bulk_index_dataframe(es, rows, use_ml_requested) ==
  LET clean == sanitize_dataframe(rows)
      r == bulk(es, iter_actions(clean, use_ml_requested))
  IN IF clean = <<>>
       THEN [error |-> "ValueError", es |-> es]
       ELSE IF r.errors # <<>>
              THEN [error |-> "RuntimeError", es |-> r.es]
              ELSE [error |-> "none", es |-> r.es]

\* Mutant: `if reindex:`.
index_wanted_reindex_only(reindex, count) == reindex

\* `if reindex or count == 0:`
index_wanted(reindex, count) == reindex \/ count = 0

OldDoc == [source |-> <<"old">>, tokens |-> FALSE]

\* The cluster before the call: whether the index exists and what it holds,
\* whether the ingest pipeline is there already (ensure_ready puts it and
\* swallows an error), whether the ELSER model is available.
Clusters ==
  {[exists |-> x, docs |-> d, pipeline |-> p, elser |-> e] :
     x \in BOOLEAN, d \in {<<>>, <<OldDoc>>}, p \in BOOLEAN, e \in BOOLEAN}

InitIndex ==
  /\ index \in {[pc |-> "call", reindex |-> r, use_ml |-> m, file |-> f,
                 es |-> c, before |-> c, count |-> 0, count_raised |-> FALSE,
                 log |-> <<>>, error |-> "none"] :
                  r \in BOOLEAN, m \in BOOLEAN, f \in IndexFiles,
                  c \in {c \in Clusters : c.docs # <<>> => c.exists}}
  /\ search = NoSearch
  /\ extract = NoExtract
  /\ df = <<>>
  /\ db = EmptyDb
  /\ snapshot = EmptyDb
  /\ pc = "none"
  /\ run = 0
  /\ row = 0
  /\ fields = NoFields
  /\ person_name = NULL
  /\ org_name = NULL
  /\ loc_i = 0
  /\ edited = FALSE
  /\ failed_run = 0
  /\ workers = <<>>

GraphIdle ==
  UNCHANGED <<df, db, pc, run, row, fields, person_name, org_name, loc_i,
              snapshot, edited, failed_run, workers, extract, search>>

\* `if pipe.es.indices.exists(...)` is false: count stays 0.
IndexMissing ==
  /\ index.pc = "call"
  /\ ~index.es.exists
  /\ index' = [index EXCEPT !.pc = "decide"]
  /\ GraphIdle

\* The index exists: count is what es.count answers, or 0 when it raises.
CountDocs ==
  /\ index.pc = "call"
  /\ index.es.exists
  /\ \E raised \in BOOLEAN :
       index' = [index EXCEPT
                   !.pc = "decide",
                   !.count = IF raised THEN 0 ELSE Len(index.es.docs),
                   !.count_raised = raised]
  /\ GraphIdle

\* The else branch: the existing index is used.
UseExisting ==
  /\ index.pc = "decide"
  /\ ~index_wanted(index.reindex, index.count)
  /\ index' = [index EXCEPT !.pc = "done"]
  /\ GraphIdle

\* The index is there: es.indices.delete.
DeleteIndex ==
  /\ index.pc = "decide"
  /\ index_wanted(index.reindex, index.count)
  /\ index.es.exists
  /\ index' = [index EXCEPT !.pc = "ensure_index",
                            !.log = Append(@, "delete"),
                            !.es.exists = FALSE,
                            !.es.docs = <<>>]
  /\ GraphIdle

NothingToDelete ==
  /\ index.pc = "decide"
  /\ index_wanted(index.reindex, index.count)
  /\ ~index.es.exists
  /\ index' = [index EXCEPT !.pc = "ensure_index"]
  /\ GraphIdle

\* ensure_index: put_mapping on an index that exists, create otherwise.
EnsureIndex ==
  /\ index.pc = "ensure_index"
  /\ index' = IF index.es.exists
                THEN [index EXCEPT !.pc = "ensure_pipeline",
                                   !.log = Append(@, "put_mapping")]
                ELSE [index EXCEPT !.pc = "ensure_pipeline",
                                   !.log = Append(@, "create"),
                                   !.es.exists = TRUE]
  /\ GraphIdle

\* ensure_pipeline: nothing unless ML was requested; the put succeeds
\* whether or not the model is available.
EnsurePipeline ==
  /\ index.pc = "ensure_pipeline"
  /\ index' = IF index.use_ml
                THEN [index EXCEPT !.pc = "bulk_index_file",
                                   !.log = Append(@, "put_pipeline"),
                                   !.es.pipeline = TRUE]
                ELSE [index EXCEPT !.pc = "bulk_index_file"]
  /\ GraphIdle

\* bulk_index_file -> bulk_index_dataframe; what it raises leaves
\* ensure_indexed.
BulkIndexFile ==
  /\ index.pc = "bulk_index_file"
  /\ LET r == bulk_index_dataframe(index.es, index.file, index.use_ml)
     IN index' = [index EXCEPT
                    !.pc = IF r.error = "none" THEN "count" ELSE "raised",
                    !.log = Append(@, "bulk_index_file"),
                    !.es = r.es,
                    !.error = r.error]
  /\ GraphIdle

\* The count that is printed.
CountIndexed ==
  /\ index.pc = "count"
  /\ index' = [index EXCEPT !.pc = "done", !.count = Len(index.es.docs)]
  /\ GraphIdle

NextIndex ==
  \/ IndexMissing
  \/ CountDocs
  \/ UseExisting
  \/ DeleteIndex
  \/ NothingToDelete
  \/ EnsureIndex
  \/ EnsurePipeline
  \/ BulkIndexFile
  \/ CountIndexed

SpecIndex == InitIndex /\ [][NextIndex]_vars

\* The documents bulk_index_dataframe is to index, as they are stored when
\* no semantic tokens are added.
PlainDocs(rows) ==
  LET clean == sanitize_dataframe(rows)
  IN [k \in DOMAIN clean |-> [source |-> clean[k], tokens |-> FALSE]]

BulkCalled == \E k \in DOMAIN index.log : index.log[k] = "bulk_index_file"

\* C21: once bulk_index_dataframe has been called with ML requested, the
\* ELSER model not available and at least one non-empty row, it has raised
\* nothing and the index holds every non-empty row, without tokens.
C21_IndexingWithoutElser ==
  (/\ BulkCalled
   /\ index.use_ml
   /\ ~index.es.elser
   /\ sanitize_dataframe(index.file) # <<>>)
  => /\ index.error = "none"
     /\ index.es.docs = PlainDocs(index.file)

\* The same with ML not requested, where it holds: what the cluster can do
\* decides nothing when no action names the pipeline.
IndexingWithoutMl ==
  (/\ BulkCalled
   /\ ~index.use_ml
   /\ sanitize_dataframe(index.file) # <<>>)
  => /\ index.error = "none"
     /\ index.es.docs = PlainDocs(index.file)

IsIndexWrite(o) == o # "put_pipeline"

\* The delete, mapping and indexing requests issued so far.
IndexWrites == SelectSeq(index.log, IsIndexWrite)

Prefix(s, t) == Len(s) <= Len(t) /\ s = SubSeq(t, 1, Len(s))

\* reindex was asked for, or the count of the index as it was before the
\* call is 0: no index, a count that raised, or no document.
IndexingDue ==
  \/ index.reindex
  \/ ~index.before.exists
  \/ index.count_raised
  \/ index.before.docs = <<>>

\* The requests of a re-indexing, in order; there is a delete when there
\* is an index to delete.
Reindexing ==
  (IF index.before.exists THEN <<"delete">> ELSE <<>>)
    \o <<"create", "bulk_index_file">>

\* C23: when indexing is due, ensure_indexed issues the delete of the
\* existing index, then the creation, then the bulk indexing, each once,
\* in that order and nothing else that writes to the index; when it is not
\* due, it issues no request that writes at all and leaves the cluster as
\* it was.
C23_ReindexIffDue ==
  /\ Prefix(IndexWrites, Reindexing)
  /\ ~IndexingDue => index.log = <<>> /\ index.es = index.before
  /\ index.pc \in {"done", "raised"} =>
       IF IndexingDue
         THEN IndexWrites = Reindexing
         ELSE index.pc = "done" /\ index.log = <<>>

\* An index with a document was re-indexed on request: the delete, the
\* creation and the bulk indexing were issued in that order, and the index
\* holds the rows of the file and not the old document.
C23_Witness ==
  /\ index.pc = "done"
  /\ index.reindex
  /\ index.before.docs = <<OldDoc>>
  /\ ~index.count_raised
  /\ IndexWrites = <<"delete", "create", "bulk_index_file">>
  /\ index.es.docs # <<>>
  /\ \A k \in DOMAIN index.es.docs : index.es.docs[k] # OldDoc

====
